---- MODULE Spec2Model ----
(***************************************************************************)
(* A model of the RHT bookkeeping of functions_rht.py: fRHTthetadict (the  *)
(* pixel -> distribution dictionary), fRHTbackprojection (the dense image  *)
(* rebuilt from it) and RHTanglediff (the comparison of two dictionaries). *)
(* faddtoRHTheader and, from functions_misc.py, fmaptheta_halfpolar have  *)
(* specifications of their own over the same variables.                   *)
(* Arrays are sequences; a 0-based Python index k is position k+1 here.    *)
(* Intensities and angles are integers.                                    *)
(***************************************************************************)
EXTENDS Integers, Sequences, FiniteSets, TLC

VARIABLES
    pc,             \* position of the running call
    err,            \* the exception that ended the call, "none" while there is none
    ipoints,        \* fRHTbackprojection's argument ipoints
    jpoints,        \* fRHTbackprojection's argument jpoints
    hthets,         \* fRHTbackprojection's argument hthets
    naxis1,         \* fRHTbackprojection's argument naxis1
    naxis2,         \* fRHTbackprojection's argument naxis2
    ijpoints,       \* the list zip(ipoints,jpoints)
    RHT_theta_dict, \* the dictionary fRHTthetadict is filling / has returned
    index,          \* fRHTthetadict's loop variable
    backproj,       \* the image, a sequence of naxis2 rows of naxis1 cells
    pos,            \* how many elements of ijpoints the backprojection loop has consumed
    writes,         \* the cells line 156 has assigned so far, in order
    passes,         \* the positions of ijpoints whose pass has run, when the order is free
    calls,          \* how many calls of fRHTbackprojection have returned before this one
    first,          \* the arguments of the first call and, once it returned, its image
    mask_in,        \* the distribution handed to the masking lines
    mask_e,         \* the number the masking lines exclude at each edge
    mask_out,       \* the masked copy
    ijpoints_polgrad_HI, \* RHTanglediff's argument: the shared pixels
    RHT_polgrad_dict,    \* RHTanglediff's argument: field A's dictionary
    RHT_HI_dict,         \* RHTanglediff's argument: field B's dictionary
    theta_diff_polgrad_HI, \* RHTanglediff's first result list
    intensity_diff_HI,     \* RHTanglediff's second result list
    angles_polgrad,      \* RHTanglediff's argument: field A's angle axis
    angles_HI,           \* RHTanglediff's argument: field B's angle axis
    cpos,           \* how many shared pixels RHTanglediff's loop has consumed
    hthets_polgrad, \* RHTanglediff's argument hthets_polgrad, rebound by line 85
    hthets_HI,      \* RHTanglediff's argument hthets_HI, rebound by line 86
    rhtfile,        \* the FITS file at faddtoRHTheader's path: header, data, table
    rhtfile0,       \* that file as it was when the call began
    newheader,      \* faddtoRHTheader's argument newheader
    priHDU,         \* the primary HDU read: its header (prihdr) and data (backproj)
    tblHDU,         \* the table HDU read
    newkeys,        \* the keys of newheader the loop of line 49 has still to visit
    oldkeys,        \* the keys of the primary header collected at line 46
    angles,         \* fmaptheta_halfpolar's argument angles, changed in place
    deg,            \* fmaptheta_halfpolar's argument deg
    angles0,        \* the angles as they were before the first call
    hp_results      \* what the calls of fmaptheta_halfpolar returned, in order

vars == <<pc, err, ipoints, jpoints, hthets, naxis1, naxis2, ijpoints,
          RHT_theta_dict, index, backproj, pos, writes, passes, calls, first,
          mask_in, mask_e, mask_out,
          ijpoints_polgrad_HI, RHT_polgrad_dict, RHT_HI_dict,
          theta_diff_polgrad_HI, intensity_diff_HI,
          angles_polgrad, angles_HI, cpos, hthets_polgrad, hthets_HI,
          rhtfile, rhtfile0, newheader, priHDU, tblHDU, newkeys, oldkeys,
          angles, deg, angles0, hp_results>>

bpvars == <<ipoints, jpoints, hthets, naxis1, naxis2, ijpoints,
            RHT_theta_dict, index, backproj, pos, writes, passes, calls, first>>
maskvars == <<mask_in, mask_e, mask_out>>
cmpvars == <<ijpoints_polgrad_HI, RHT_polgrad_dict, RHT_HI_dict,
             theta_diff_polgrad_HI, intensity_diff_HI,
             angles_polgrad, angles_HI, cpos, hthets_polgrad, hthets_HI>>
hdrvars == <<rhtfile, rhtfile0, newheader, priHDU, tblHDU, newkeys, oldkeys>>
hpvars == <<angles, deg, angles0, hp_results>>

----------------------------------------------------------------------------
(* Bounds of the model. *)

\* the longest ipoints, jpoints, hthets and shared-pixel list
MaxPoints == 2
\* the longest distribution handed to the masking lines on their own
MaxAxis == 34

\* the literal 15 of the two masking lines
EdgeExclusion == 15

\* pixel coordinates tried: -1 counts from the end of an axis, 0 and 1 lie inside
\* an axis of length 2, 1 lies outside an axis of length 1
Coords == {-1, 0, 1}
\* image extents tried for naxis1 and naxis2
Extents == {1, 2}
\* edge exclusions tried on the masking lines on their own
EdgeExclusions == {0, 1, 2, EdgeExclusion}

----------------------------------------------------------------------------
(* Helpers over sequences. *)

Min(a, b) == IF a < b THEN a ELSE b
Max(a, b) == IF a > b THEN a ELSE b

\* every sequence over S of length at most n
SeqsUpTo(S, n) == UNION {[1..k -> S] : k \in 0..n}

RECURSIVE SumFirst(_, _)
\* the sum of the first n entries of s
SumFirst(s, n) == IF n = 0 THEN 0 ELSE SumFirst(s, n - 1) + s[n]

\* np.sum of a one-dimensional array
SumSeq(s) == SumFirst(s, Len(s))

\* a distribution of length L whose entry at 0-based index k is k + 1
Ramp(L) == [k \in 1..L |-> k]
\* a distribution of length L whose entries are all 1
Ones(L) == [k \in 1..L |-> 1]

\* the distributions tried as elements of hthets: lengths 31 (wholly masked),
\* 32 (one entry survives) and 33 (two survive)
HthetsPool == {Ones(31), Ramp(32), Ramp(33)}

----------------------------------------------------------------------------
(* Python's semantics of the lines modelled. *)

\* zip(a,b) of Python 2: a list of pairs, as long as the shorter argument
Zip(a, b) == [k \in 1..Min(Len(a), Len(b)) |-> <<a[k], b[k]>>]

\* a dictionary that keeps the first value written under a key
DictSet_keepfirst(d, key, value) ==
    [k \in (DOMAIN d) \cup {key} |-> IF k \in DOMAIN d THEN d[k] ELSE value]

\* d[key] = value on a dictionary
DictSet(d, key, value) ==
    [k \in (DOMAIN d) \cup {key} |-> IF k = key THEN value ELSE d[k]]

\* a tail slice that is empty when e is 0
TailStart_empty(L, e) == IF e > 0 THEN Max(L - e, 0) ELSE L

\* a head slice one entry short: x[:e] = 0.0 ; x[-e:] = 0.0
MaskEdges_shorthead(h, e) ==
    [k \in 1..Len(h) |->
        IF (k - 1) < e \/ (k - 1) >= (IF e > 0 THEN Max(Len(h) - e, 0) ELSE 0)
        THEN 0 ELSE h[k]]

\* the first 0-based index of the slice [-e:] of an array of length L:
\* -e counts from the end when it is negative and is 0 when e is 0
TailStart(L, e) == IF e > 0 THEN Max(L - e, 0) ELSE 0

\* x[:e+1] = 0.0 ; x[-e:] = 0.0 on a copy of h (slices clip to the array)
MaskEdges(h, e) ==
    [k \in 1..Len(h) |->
        IF (k - 1) < e + 1 \/ (k - 1) >= TailStart(Len(h), e) THEN 0 ELSE h[k]]

\* a mask of 15 entries at each end: x[:15] = 0.0 ; x[-15:] = 0.0
hthets_masked_symmetric(h) ==
    [k \in 1..Len(h) |->
        IF (k - 1) < EdgeExclusion \/ (k - 1) >= Len(h) - EdgeExclusion
        THEN 0 ELSE h[k]]

\* lines 152-154: the masked copy of one pixel's distribution
hthets_masked(h) == MaskEdges(h, EdgeExclusion)

\* line 155
hthets_sum(h) == SumSeq(hthets_masked(h))

\* the masking done on the array itself: hthets_masked = hthets
hthets_after_mask_inplace(h) == hthets_masked(h)

\* line 152: the masking acts on np.copy(hthets), so the array that was looked
\* up is after lines 152-154 what it was before
hthets_after_mask(h) == h

\* a bound check that refuses every negative index
IndexOK_nonnegative(k, n) == 0 <= k /\ k < n

\* a bound check that lets the index n through
IndexOK_inclusive(k, n) == -n <= k /\ k <= n

\* whether numpy accepts index k on an axis of length n
IndexOK(k, n) == -n <= k /\ k < n

\* the 0-based position index k addresses on an axis of length n
NormIndex(k, n) == IF k < 0 THEN k + n ELSE k

\* an image that starts with 1 in every cell
Zeros_ones(rows, cols) == [r \in 1..rows |-> [c \in 1..cols |-> 1]]

\* np.zeros(shape=(rows,cols))
Zeros(rows, cols) == [r \in 1..rows |-> [c \in 1..cols |-> 0]]

\* the shape with its axes exchanged
ZerosShape_swapped == <<naxis1, naxis2>>

\* line 143: the shape handed to np.zeros
ZerosShape == <<naxis2, naxis1>>

\* the index pair untransposed
WriteIndex_ij(i, j) == <<i, j>>

\* line 156: the (row, column) index pair used for pixel (i,j)
WriteIndex(i, j) == <<j, i>>

\* a[r,c] += v
SetCell_add(a, r, c, v) ==
    [a EXCEPT ![NormIndex(r, Len(a)) + 1][NormIndex(c, Len(a[1])) + 1] = @ + v]

\* a[r,c] = v, r and c already checked
SetCell(a, r, c, v) ==
    [a EXCEPT ![NormIndex(r, Len(a)) + 1][NormIndex(c, Len(a[1])) + 1] = v]

----------------------------------------------------------------------------
(* fRHTbackprojection and, inside it, fRHTthetadict. *)

\* the values the variables of the other functions keep while this one runs
MaskIdle == mask_in = <<>> /\ mask_e = 0 /\ mask_out = <<>>
CmpIdle ==
    /\ ijpoints_polgrad_HI = <<>>
    /\ RHT_polgrad_dict = <<>>
    /\ RHT_HI_dict = <<>>
    /\ theta_diff_polgrad_HI = <<>>
    /\ intensity_diff_HI = <<>>
    /\ angles_polgrad = <<>>
    /\ angles_HI = <<>>
    /\ cpos = 0
    /\ hthets_polgrad = <<>>
    /\ hthets_HI = <<>>
HdrIdle ==
    /\ rhtfile = <<>> /\ rhtfile0 = <<>> /\ newheader = <<>>
    /\ priHDU = <<>> /\ tblHDU = <<>> /\ newkeys = {} /\ oldkeys = {}
HpIdle == angles = <<>> /\ deg = FALSE /\ angles0 = <<>> /\ hp_results = <<>>
BpIdle ==
    /\ ipoints = <<>> /\ jpoints = <<>> /\ hthets = <<>>
    /\ naxis1 = 1 /\ naxis2 = 1
    /\ ijpoints = <<>> /\ RHT_theta_dict = <<>> /\ index = 0
    /\ backproj = <<>> /\ pos = 0 /\ writes = <<>> /\ passes = <<>>
    /\ calls = 0 /\ first = <<>>

\* a call fRHTbackprojection(ipoints,jpoints,hthets,naxis1,naxis2)
Init ==
    /\ pc = "zeros"
    /\ err = "none"
    /\ ipoints \in SeqsUpTo(Coords, MaxPoints)
    /\ jpoints \in SeqsUpTo(Coords, MaxPoints)
    /\ hthets \in SeqsUpTo(HthetsPool, MaxPoints)
    /\ naxis1 \in Extents
    /\ naxis2 \in Extents
    /\ ijpoints = <<>>
    /\ RHT_theta_dict = <<>>
    /\ index = 0
    /\ backproj = <<>>
    /\ pos = 0
    /\ writes = <<>>
    /\ passes = <<>>
    /\ calls = 0
    /\ first = <<>>
    /\ MaskIdle
    /\ CmpIdle
    /\ HdrIdle
    /\ HpIdle

\* line 143
BackprojZeros ==
    /\ pc = "zeros"
    /\ backproj' = Zeros(ZerosShape[1], ZerosShape[2])
    /\ pc' = "zip"
    /\ UNCHANGED <<err, ipoints, jpoints, hthets, naxis1, naxis2, ijpoints,
                   RHT_theta_dict, index, pos, writes, passes, calls, first,
                   maskvars, cmpvars>>
    /\ UNCHANGED <<hdrvars, hpvars>>

\* line 145, and the entry into fRHTthetadict (lines 146, 119)
BackprojZip ==
    /\ pc = "zip"
    /\ ijpoints' = Zip(ipoints, jpoints)
    /\ RHT_theta_dict' = <<>>
    /\ index' = 0
    /\ pc' = "thetadict"
    /\ UNCHANGED <<err, ipoints, jpoints, hthets, naxis1, naxis2,
                   backproj, pos, writes, passes, calls, first, maskvars, cmpvars>>
    /\ UNCHANGED <<hdrvars, hpvars>>

\* a pass that stores the distribution without its last entry
ThetadictPut_trimmed(d, n) ==
    DictSet(d, ijpoints[n + 1], SubSeq(hthets[n + 1], 1, Len(hthets[n + 1]) - 1))

\* the dictionary after one pass of lines 122-124 for 0-based index n
ThetadictPut(d, n) == DictSet(d, ijpoints[n + 1], hthets[n + 1])

\* one pass of fRHTthetadict's loop, lines 121-124
ThetadictStep ==
    /\ pc = "thetadict"
    /\ index < Len(ijpoints)
    /\ IF index < Len(hthets)
          THEN /\ RHT_theta_dict' = ThetadictPut(RHT_theta_dict, index)
               /\ index' = index + 1
               /\ UNCHANGED <<pc, err>>
          ELSE \* hthets[index] past the end of hthets
               /\ pc' = "raised"
               /\ err' = "IndexError"
               /\ UNCHANGED <<RHT_theta_dict, index>>
    /\ UNCHANGED <<ipoints, jpoints, hthets, naxis1, naxis2, ijpoints,
                   backproj, pos, writes, passes, calls, first, maskvars, cmpvars>>
    /\ UNCHANGED <<hdrvars, hpvars>>

\* line 126 and the assignment of line 146
ThetadictReturn ==
    /\ pc = "thetadict"
    /\ index = Len(ijpoints)
    /\ pc' = "loop"
    /\ pos' = 0
    /\ UNCHANGED <<err, ipoints, jpoints, hthets, naxis1, naxis2, ijpoints,
                   RHT_theta_dict, index, backproj, writes, passes, calls, first,
                   maskvars, cmpvars>>
    /\ UNCHANGED <<hdrvars, hpvars>>

\* lines 123-124 store hthets[index] itself, not a copy: the position of hthets
\* whose element the dictionary holds under key, the last one listed with it
Referent(key) ==
    CHOOSE n \in 1..Len(ijpoints) :
        /\ ijpoints[n] = key
        /\ \A m \in (n + 1)..Len(ijpoints) : ijpoints[m] # key

\* hthets and the dictionary after lines 150-154 have run for the key ij
HthetsAfter(ij) ==
    [n \in DOMAIN hthets |->
        IF n = Referent(ij) THEN hthets_after_mask(hthets[n]) ELSE hthets[n]]
DictAfter(ij) == [RHT_theta_dict EXCEPT ![ij] = hthets_after_mask(@)]

\* one pass of the loop of lines 148-156
BackprojStep ==
    /\ pc = "loop"
    /\ pos < Len(ijpoints)
    /\ LET ij == ijpoints[pos + 1]
           i  == ij[1]
           j  == ij[2]
           w  == WriteIndex(i, j)
       IN  IF ij \notin DOMAIN RHT_theta_dict
              THEN /\ pc' = "raised"
                   /\ err' = "KeyError"
                   /\ UNCHANGED <<backproj, pos, writes, hthets, RHT_theta_dict>>
              ELSE IF ~(IndexOK(w[1], Len(backproj)) /\ IndexOK(w[2], Len(backproj[1])))
                      THEN /\ pc' = "raised"
                           /\ err' = "IndexError"
                           /\ hthets' = HthetsAfter(ij)
                           /\ RHT_theta_dict' = DictAfter(ij)
                           /\ UNCHANGED <<backproj, pos, writes>>
                      ELSE /\ hthets' = HthetsAfter(ij)
                           /\ RHT_theta_dict' = DictAfter(ij)
                           /\ backproj' = SetCell(backproj, w[1], w[2],
                                                  hthets_sum(RHT_theta_dict[ij]))
                           /\ writes' = Append(writes,
                                  <<NormIndex(w[1], Len(backproj)),
                                    NormIndex(w[2], Len(backproj[1]))>>)
                           /\ pos' = pos + 1
                           /\ UNCHANGED <<pc, err>>
    /\ UNCHANGED <<ipoints, jpoints, naxis1, naxis2, ijpoints,
                   index, passes, calls, first, maskvars, cmpvars>>
    /\ UNCHANGED <<hdrvars, hpvars>>

\* line 158
BackprojReturn ==
    /\ pc = "loop"
    /\ pos = Len(ijpoints)
    /\ pc' = "done"
    /\ UNCHANGED <<err, bpvars, maskvars, cmpvars>>
    /\ UNCHANGED <<hdrvars, hpvars>>

Next ==
    \/ BackprojZeros
    \/ BackprojZip
    \/ ThetadictStep
    \/ ThetadictReturn
    \/ BackprojStep
    \/ BackprojReturn

Spec == Init /\ [][Next]_vars

----------------------------------------------------------------------------
(* The masking lines 152-154 on their own, the literal 15 made a parameter. *)

\* the distributions tried: every entry positive, so that an entry is 0 after
\* the masking exactly when the masking assigned it
MaskInputs == {Ramp(L) : L \in 0..MaxAxis} \cup {Ones(L) : L \in 0..MaxAxis}

InitMask ==
    /\ pc = "mask"
    /\ err = "none"
    /\ mask_in \in MaskInputs
    /\ mask_e \in EdgeExclusions
    /\ mask_out = <<>>
    /\ BpIdle
    /\ CmpIdle
    /\ HdrIdle
    /\ HpIdle

\* lines 152-154 with mask_e for 15
MaskApply ==
    /\ pc = "mask"
    /\ mask_out' = MaskEdges(mask_in, mask_e)
    /\ pc' = "masked"
    /\ UNCHANGED <<err, mask_in, mask_e, bpvars, cmpvars>>
    /\ UNCHANGED <<hdrvars, hpvars>>

NextMask == MaskApply

SpecMask == InitMask /\ [][NextMask]_vars

----------------------------------------------------------------------------
(* RHTanglediff. *)

\* the pixels tried as shared pixels and as dictionary keys
Pixels == {<<0, 0>>, <<0, 1>>}
\* the distributions tried as dictionary values
CmpPool ==
    {<<0, 3, 0, 5>>, <<2, 0, 4, 0>>, <<0, 0, 0, 0>>, <<0, 0, 0, 5>>, <<2, 0, 0, 0>>}
\* the angle axes tried
AngleAxes == {<<0, 45, 90, 135>>}

\* the values tried as the arguments hthets_polgrad and hthets_HI
HthetsArguments == {<<>>, <<7, 7, 7, 7>>}

\* every dictionary from some pixels of P to distributions of D
Dicts(P, D) == UNION {[K -> D] : K \in SUBSET P}

\* the names bound in RHTanglediff's body when line 96 runs: its arguments and
\* the locals assigned by lines 79-95 (the module binds no global of its own)
BoundNames ==
    {"ijpoints_polgrad_HI", "RHT_polgrad_dict", "RHT_HI_dict", "hthets_polgrad",
     "hthets_HI", "angles_polgrad", "angles_HI", "theta_diff_polgrad_HI",
     "intensity_diff_HI", "pixel", "thetas_polgrad", "thetas_HI",
     "thetas_polgrad_avg", "thetas_HI_avg", "intensity_polgrad", "intensity_HI"}

\* the list line 96 appends to
Line96Target == "intensity_diff_polgrad"

RECURSIVE SelectPositive(_, _)
\* angles[np.where(h>0)[0]]: the angles whose intensity is positive, in order
SelectPositive(axis, h) ==
    IF h = <<>> \/ axis = <<>> THEN <<>>
    ELSE (IF h[1] > 0 THEN <<axis[1]>> ELSE <<>>)
         \o SelectPositive(Tail(axis), Tail(h))

\* not-a-number, what numpy gives for 0/0: a fraction of denominator 0
nan == <<0, 0>>

\* np.mean of a one-dimensional array: the fraction <<sum, count>>, or nan
\* for the empty array
Mean(s) == IF s = <<>> THEN nan ELSE <<SumSeq(s), Len(s)>>

\* a - b on two results of Mean: a fraction <<numerator, denominator>>, or nan
MeanDiff(a, b) ==
    IF a = nan \/ b = nan THEN nan
    ELSE <<a[1] * b[2] - b[1] * a[2], a[2] * b[2]>>

\* a lookup that leaves the name bound to what the caller passed
Lookup_keepargument(d, pixel, argument) == argument

\* lines 85-86: the name of the argument is rebound to the dictionary's entry
Lookup(d, pixel, argument) == d[pixel]

\* a call RHTanglediff(ijpoints_polgrad_HI,RHT_polgrad_dict,RHT_HI_dict,...)
\* after lines 79-80
InitCompare ==
    /\ pc = "cmp_loop"
    /\ err = "none"
    /\ ijpoints_polgrad_HI \in SeqsUpTo(Pixels, MaxPoints)
    /\ RHT_polgrad_dict \in Dicts(Pixels, CmpPool)
    /\ RHT_HI_dict \in Dicts(Pixels, CmpPool)
    /\ angles_polgrad \in AngleAxes
    /\ angles_HI \in AngleAxes
    /\ theta_diff_polgrad_HI = <<>>
    /\ intensity_diff_HI = <<>>
    /\ cpos = 0
    /\ hthets_polgrad \in HthetsArguments
    /\ hthets_HI \in HthetsArguments
    /\ BpIdle
    /\ MaskIdle
    /\ HdrIdle
    /\ HpIdle

\* one pass of the loop of lines 83-100
AnglediffStep ==
    /\ pc = "cmp_loop"
    /\ cpos < Len(ijpoints_polgrad_HI)
    /\ LET pixel == ijpoints_polgrad_HI[cpos + 1]
       IN  IF pixel \notin DOMAIN RHT_polgrad_dict
              THEN \* line 85
                   /\ pc' = "raised"
                   /\ err' = "KeyError"
                   /\ UNCHANGED <<theta_diff_polgrad_HI, intensity_diff_HI, cpos,
                                  hthets_polgrad, hthets_HI>>
              ELSE IF pixel \notin DOMAIN RHT_HI_dict
                      THEN \* line 86, line 85 done
                           /\ pc' = "raised"
                           /\ err' = "KeyError"
                           /\ hthets_polgrad' =
                                  Lookup(RHT_polgrad_dict, pixel, hthets_polgrad)
                           /\ UNCHANGED <<theta_diff_polgrad_HI, intensity_diff_HI,
                                          cpos, hthets_HI>>
                      ELSE /\ hthets_polgrad' =
                                  Lookup(RHT_polgrad_dict, pixel, hthets_polgrad)
                           /\ hthets_HI' = Lookup(RHT_HI_dict, pixel, hthets_HI)
                           /\ IF Line96Target \notin BoundNames
                                 THEN \* line 96
                                      /\ pc' = "raised"
                                      /\ err' = "NameError"
                                      /\ UNCHANGED <<theta_diff_polgrad_HI,
                                                     intensity_diff_HI, cpos>>
                                 ELSE LET thetas_polgrad_avg ==
                                              Mean(SelectPositive(angles_polgrad,
                                                                  hthets_polgrad'))
                                          thetas_HI_avg ==
                                              Mean(SelectPositive(angles_HI, hthets_HI'))
                                      IN  /\ intensity_diff_HI' =
                                                 Append(intensity_diff_HI,
                                                        SumSeq(hthets_HI'))
                                          /\ theta_diff_polgrad_HI' =
                                                 Append(theta_diff_polgrad_HI,
                                                        MeanDiff(thetas_polgrad_avg,
                                                                 thetas_HI_avg))
                                          /\ cpos' = cpos + 1
                                          /\ UNCHANGED <<pc, err>>
    /\ UNCHANGED <<ijpoints_polgrad_HI, RHT_polgrad_dict, RHT_HI_dict,
                   angles_polgrad, angles_HI, bpvars, maskvars>>
    /\ UNCHANGED <<hdrvars, hpvars>>

\* lines 102-105
AnglediffReturn ==
    /\ pc = "cmp_loop"
    /\ cpos = Len(ijpoints_polgrad_HI)
    /\ pc' = "cmp_done"
    /\ UNCHANGED <<err, cmpvars, bpvars, maskvars>>
    /\ UNCHANGED <<hdrvars, hpvars>>

NextCompare ==
    \/ AnglediffStep
    \/ AnglediffReturn

SpecCompare == InitCompare /\ [][NextCompare]_vars

----------------------------------------------------------------------------
(* A caller that calls fRHTbackprojection twice on the same objects, or    *)
(* RHTanglediff once.                                                      *)

\* the arguments as the caller holds them when it makes a call
Arguments ==
    [ipoints |-> ipoints, jpoints |-> jpoints, hthets |-> hthets,
     naxis1 |-> naxis1, naxis2 |-> naxis2]

\* a first call fRHTbackprojection(ipoints,jpoints,hthets,naxis1,naxis2) on
\* sequences of one length
InitTwice ==
    /\ pc = "zeros"
    /\ err = "none"
    /\ \E n \in 0..MaxPoints :
          /\ ipoints \in [1..n -> Coords]
          /\ jpoints \in [1..n -> Coords]
          /\ hthets \in [1..n -> HthetsPool]
    /\ naxis1 \in Extents
    /\ naxis2 \in Extents
    /\ ijpoints = <<>>
    /\ RHT_theta_dict = <<>>
    /\ index = 0
    /\ backproj = <<>>
    /\ pos = 0
    /\ writes = <<>>
    /\ passes = <<>>
    /\ calls = 0
    /\ first = [args |-> Arguments, image |-> <<>>]
    /\ MaskIdle
    /\ CmpIdle
    /\ HdrIdle
    /\ HpIdle

\* the first call has returned; the caller keeps its image and calls again with
\* the same objects: the locals of lines 143-156 are new
BackprojAgain ==
    /\ pc = "done"
    /\ calls = 0
    /\ first # <<>>
    /\ first' = [first EXCEPT !.image = backproj]
    /\ calls' = 1
    /\ pc' = "zeros"
    /\ ijpoints' = <<>>
    /\ RHT_theta_dict' = <<>>
    /\ index' = 0
    /\ backproj' = <<>>
    /\ pos' = 0
    /\ writes' = <<>>
    /\ passes' = <<>>
    /\ UNCHANGED <<err, ipoints, jpoints, hthets, naxis1, naxis2, maskvars, cmpvars>>
    /\ UNCHANGED <<hdrvars, hpvars>>

InitCalls == InitTwice \/ InitCompare

NextCalls ==
    \/ BackprojZeros
    \/ BackprojZip
    \/ ThetadictStep
    \/ ThetadictReturn
    \/ BackprojStep
    \/ BackprojReturn
    \/ BackprojAgain
    \/ AnglediffStep
    \/ AnglediffReturn

SpecCalls == InitCalls /\ [][NextCalls]_vars

----------------------------------------------------------------------------
(* faddtoRHTheader. A header is a function from keywords to values.        *)

\* the keywords tried
HeaderKeys == {"NAXIS", "OBJECT", "WLEN"}
\* the values tried in the file's header
OldValues == {1, 2}
\* the values tried in newheader; 0 stands for a value whose assignment to a
\* header card raises ValueError
NewValues == {0, 1, 2}
\* the primary data and the tables tried
DataValues == {10, 11}
TableValues == {20, 21}

\* every header over some of the keywords K with values of V
Headers(K, V) == UNION {[S -> V] : S \in SUBSET K}

\* prihdr[str(key)] = value raises ValueError
RaisesValueError(key, value) == value = 0

\* a test that takes every key for a new one
KeyIsNew_always(key, keys) == TRUE

\* line 50: key not in oldkeys, oldkeys being the list of keywords that
\* prihdr.keys() returned at line 46
KeyIsNew(key, keys) == key \notin keys

\* line 52: prihdr[str(key)] = value, on the header object of the primary HDU
HeaderSet(hdr, key, value) ==
    [k \in (DOMAIN hdr) \cup {key} |-> IF k = key THEN value ELSE hdr[k]]

\* a call faddtoRHTheader(rhtfile,newheader)
InitHeader ==
    /\ pc = "hdr_open"
    /\ err = "none"
    /\ \E h \in Headers(HeaderKeys, OldValues), d \in DataValues, t \in TableValues :
          /\ rhtfile = [header |-> h, data |-> d, table |-> t]
          /\ rhtfile0 = [header |-> h, data |-> d, table |-> t]
    /\ newheader \in Headers(HeaderKeys, NewValues)
    /\ priHDU = <<>>
    /\ tblHDU = <<>>
    /\ newkeys = {}
    /\ oldkeys = {}
    /\ BpIdle
    /\ MaskIdle
    /\ CmpIdle
    /\ HpIdle

\* lines 38-46
HeaderOpen ==
    /\ pc = "hdr_open"
    /\ priHDU' = [header |-> rhtfile.header, data |-> rhtfile.data]
    /\ tblHDU' = rhtfile.table
    /\ newkeys' = DOMAIN newheader
    /\ oldkeys' = DOMAIN rhtfile.header
    /\ pc' = "hdr_keys"
    /\ UNCHANGED <<err, rhtfile, rhtfile0, newheader, bpvars, maskvars, cmpvars, hpvars>>

\* one pass of the loop of lines 49-54
HeaderAddKey ==
    /\ pc = "hdr_keys"
    /\ \E key \in newkeys :
          /\ newkeys' = newkeys \ {key}
          /\ IF KeyIsNew(key, oldkeys) /\ ~RaisesValueError(key, newheader[key])
                THEN priHDU' = [priHDU EXCEPT
                                   !.header = HeaderSet(@, key, newheader[key])]
                ELSE UNCHANGED priHDU
    /\ UNCHANGED <<pc, err, rhtfile, rhtfile0, newheader, tblHDU, oldkeys,
                   bpvars, maskvars, cmpvars, hpvars>>

\* lines 57-59: the list written holds the HDUs read, priHDU with its header
\* as the loop left it (the PrimaryHDU built at line 57 is not written)
HeaderWrite ==
    /\ pc = "hdr_keys"
    /\ newkeys = {}
    /\ rhtfile' = [header |-> priHDU.header, data |-> priHDU.data, table |-> tblHDU]
    /\ pc' = "hdr_done"
    /\ UNCHANGED <<err, rhtfile0, newheader, priHDU, tblHDU, newkeys, oldkeys,
                   bpvars, maskvars, cmpvars, hpvars>>

NextHeader ==
    \/ HeaderOpen
    \/ HeaderAddKey
    \/ HeaderWrite

SpecHeader == InitHeader /\ [][NextHeader]_vars

----------------------------------------------------------------------------
(* fmaptheta_halfpolar of functions_misc.py, called twice on one array.    *)

\* the angles tried: the ends and the middle of each range the code tells apart
HalfpolarAngles == {0, 1, 2, 90, 179, 180, 181, 270, 359, 360}

\* an angle the shift leaves alone at the half turn
ShiftSelects_strict(a, d) ==
    IF d THEN a > 180 /\ a # 360 ELSE a > 1 /\ a # 2

\* lines 269 and 274: the mask of the first assignment
ShiftSelects(a, d) ==
    IF d THEN a >= 180 /\ a # 360 ELSE a >= 1 /\ a # 2

\* lines 269 and 274: what the first assignment subtracts
ShiftBy(d) == IF d THEN 180 ELSE 1

\* lines 271 and 276: the mask of the second assignment and what it subtracts
WrapSelects(a, d) == IF d THEN a = 360 ELSE a = 2
WrapBy(d) == IF d THEN 360 ELSE 2

\* a call fmaptheta_halfpolar(angles,deg)
InitHalfpolar ==
    /\ pc = "hp_shift"
    /\ err = "none"
    /\ angles \in SeqsUpTo(HalfpolarAngles, MaxPoints)
    /\ angles0 = angles
    /\ deg \in BOOLEAN
    /\ hp_results = <<>>
    /\ BpIdle
    /\ MaskIdle
    /\ CmpIdle
    /\ HdrIdle

\* line 269 (deg false) or line 274 (deg true)
HalfpolarShift ==
    /\ pc = "hp_shift"
    /\ angles' = [k \in DOMAIN angles |->
                    IF ShiftSelects(angles[k], deg)
                    THEN angles[k] - ShiftBy(deg) ELSE angles[k]]
    /\ pc' = "hp_wrap"
    /\ UNCHANGED <<err, deg, angles0, hp_results, bpvars, maskvars, cmpvars, hdrvars>>

\* line 271 (deg false) or line 276 (deg true)
HalfpolarWrap ==
    /\ pc = "hp_wrap"
    /\ angles' = [k \in DOMAIN angles |->
                    IF WrapSelects(angles[k], deg)
                    THEN angles[k] - WrapBy(deg) ELSE angles[k]]
    /\ pc' = "hp_return"
    /\ UNCHANGED <<err, deg, angles0, hp_results, bpvars, maskvars, cmpvars, hdrvars>>

\* line 278: the array itself is returned
HalfpolarReturn ==
    /\ pc = "hp_return"
    /\ hp_results' = Append(hp_results, angles)
    /\ pc' = "hp_done"
    /\ UNCHANGED <<err, angles, deg, angles0, bpvars, maskvars, cmpvars, hdrvars>>

\* the caller applies the function to the returned array a second time
HalfpolarAgain ==
    /\ pc = "hp_done"
    /\ Len(hp_results) = 1
    /\ pc' = "hp_shift"
    /\ UNCHANGED <<err, hpvars, bpvars, maskvars, cmpvars, hdrvars>>

NextHalfpolar ==
    \/ HalfpolarShift
    \/ HalfpolarWrap
    \/ HalfpolarReturn
    \/ HalfpolarAgain

SpecHalfpolar == InitHalfpolar /\ [][NextHalfpolar]_vars

----------------------------------------------------------------------------
(* The loop of lines 148-156 with its passes run in any order. *)

\* the positions of ijpoints whose pass has not run yet
Pending == (1..Len(ijpoints)) \ {passes[n] : n \in 1..Len(passes)}

\* a call on sequences of one length
InitAnyOrder ==
    /\ Init
    /\ Len(ipoints) = Len(jpoints)
    /\ Len(jpoints) = Len(hthets)

\* lines 149-156 for one element of ijpoints not handled yet, whichever
PassInAnyOrder ==
    /\ pc = "loop"
    /\ \E n \in Pending :
          LET ij == ijpoints[n]
              i  == ij[1]
              j  == ij[2]
              w  == WriteIndex(i, j)
          IN  IF ij \notin DOMAIN RHT_theta_dict
                 THEN /\ pc' = "raised"
                      /\ err' = "KeyError"
                      /\ UNCHANGED <<backproj, pos, writes, passes, hthets,
                                     RHT_theta_dict>>
                 ELSE IF ~(IndexOK(w[1], Len(backproj))
                              /\ IndexOK(w[2], Len(backproj[1])))
                         THEN /\ pc' = "raised"
                              /\ err' = "IndexError"
                              /\ hthets' = HthetsAfter(ij)
                              /\ RHT_theta_dict' = DictAfter(ij)
                              /\ UNCHANGED <<backproj, pos, writes, passes>>
                         ELSE /\ hthets' = HthetsAfter(ij)
                              /\ RHT_theta_dict' = DictAfter(ij)
                              /\ backproj' = SetCell(backproj, w[1], w[2],
                                                     hthets_sum(RHT_theta_dict[ij]))
                              /\ writes' = Append(writes,
                                     <<NormIndex(w[1], Len(backproj)),
                                       NormIndex(w[2], Len(backproj[1]))>>)
                              /\ passes' = Append(passes, n)
                              /\ pos' = pos + 1
                              /\ UNCHANGED <<pc, err>>
    /\ UNCHANGED <<ipoints, jpoints, naxis1, naxis2, ijpoints,
                   index, calls, first, maskvars, cmpvars>>
    /\ UNCHANGED <<hdrvars, hpvars>>

NextAnyOrder ==
    \/ BackprojZeros
    \/ BackprojZip
    \/ ThetadictStep
    \/ ThetadictReturn
    \/ PassInAnyOrder
    \/ BackprojReturn

SpecAnyOrder == InitAnyOrder /\ [][NextAnyOrder]_vars

----------------------------------------------------------------------------
(* fRHTbackprojection on distributions around and below the masked length. *)

\* distributions shorter than one mask slice, as long as the head slice, as
\* long as the two slices together, and one entry longer
LengthsPool == {Ramp(3), Ramp(16), Ones(31), Ramp(32)}

\* a call fRHTbackprojection(ipoints,jpoints,hthets,naxis1,naxis2) on sequences
\* of one length
InitLengths ==
    /\ pc = "zeros"
    /\ err = "none"
    /\ ipoints \in SeqsUpTo(Coords, MaxPoints)
    /\ jpoints \in SeqsUpTo(Coords, MaxPoints)
    /\ hthets \in SeqsUpTo(LengthsPool, MaxPoints)
    /\ Len(ipoints) = Len(jpoints)
    /\ Len(jpoints) = Len(hthets)
    /\ naxis1 \in Extents
    /\ naxis2 \in Extents
    /\ ijpoints = <<>>
    /\ RHT_theta_dict = <<>>
    /\ index = 0
    /\ backproj = <<>>
    /\ pos = 0
    /\ writes = <<>>
    /\ passes = <<>>
    /\ calls = 0
    /\ first = <<>>
    /\ MaskIdle
    /\ CmpIdle
    /\ HdrIdle
    /\ HpIdle

SpecLengths == InitLengths /\ [][Next]_vars

----------------------------------------------------------------------------
(* Vocabulary of the properties. *)

\* the keys of the store
Keys == DOMAIN RHT_theta_dict

\* fRHTthetadict has returned its dictionary to fRHTbackprojection
StoreBuilt == pc \in {"loop", "done"} \/ (pc = "raised" /\ index = Len(ijpoints))

\* the 0-based <<row, column>> of the image that the pixel key addresses
CellOf(key) == <<NormIndex(key[2], naxis2), NormIndex(key[1], naxis1)>>

\* the 0-based <<row, column>> pairs of the image
Cells == {<<r, c>> : r \in 0..(naxis2 - 1), c \in 0..(naxis1 - 1)}

\* the value of the image at a 0-based <<row, column>>
CellValue(rc) == backproj[rc[1] + 1][rc[2] + 1]

RECURSIVE SumImage(_)
\* the sum of all cells of an image
SumImage(a) == IF a = <<>> THEN 0 ELSE SumSeq(a[1]) + SumImage(Tail(a))

RECURSIVE SumOverKeys(_, _)
\* the sum, once per key of K, of the masked sum of d's distribution under it
SumOverKeys(d, K) ==
    IF K = {} THEN 0
    ELSE LET key == CHOOSE key \in K : TRUE
         IN  hthets_sum(d[key]) + SumOverKeys(d, K \ {key})

\* the largest position of ijpoints that holds key
LastIndexOf(key) ==
    CHOOSE k \in 1..Len(ijpoints) :
        /\ ijpoints[k] = key
        /\ \A m \in (k + 1)..Len(ijpoints) : ijpoints[m] # key

\* the three input sequences have one length
EqualLengths == Len(ipoints) = Len(jpoints) /\ Len(jpoints) = Len(hthets)

----------------------------------------------------------------------------
(* Properties of fRHTbackprojection, checked under Spec. *)

NoAliasedKeys ==
    \A k1 \in Keys : \A k2 \in Keys : k1 # k2 => CellOf(k1) # CellOf(k2)

C6_LastWriteWins ==
    /\ StoreBuilt =>
          /\ Keys = {ijpoints[k] : k \in 1..Len(ijpoints)}
          /\ \A key \in Keys : RHT_theta_dict[key] = hthets[LastIndexOf(key)]
    /\ pc = "done" =>
          \A key \in Keys :
             (\A other \in Keys : other # key => CellOf(other) # CellOf(key)) =>
                 CellValue(CellOf(key)) = hthets_sum(hthets[LastIndexOf(key)])

\* a returned image of a pixel listed twice, whose cell holds the second sum
C6_Witness ==
    /\ pc = "done"
    /\ Len(ijpoints) = 2 /\ ijpoints[1] = ijpoints[2]
    /\ hthets_sum(hthets[1]) # hthets_sum(hthets[2])
    /\ CellValue(CellOf(ijpoints[1])) = hthets_sum(hthets[2])

\* C7 as stated: from input sequences of unequal length no store is ever built.
C7_Original == StoreBuilt => EqualLengths

C10_Shape ==
    pc = "done" =>
        /\ Len(backproj) = naxis2
        /\ \A r \in 1..Len(backproj) : Len(backproj[r]) = naxis1

\* a returned non-square image with a pixel written
C10_Witness ==
    /\ pc = "done"
    /\ naxis1 = 1 /\ naxis2 = 2
    /\ Keys = {<<0, 1>>}
    /\ CellValue(<<1, 0>>) > 0

----------------------------------------------------------------------------
(* Properties of the masking lines, checked under SpecMask. *)

\* the 0-based indices of mask_in
Indices == 0..(Len(mask_in) - 1)

\* the 0-based indices the masking set to 0 (every input entry is positive)
Zeroed == {k \in Indices : mask_out[k + 1] = 0}

\* the first n and the last n indices
FirstN(n) == {k \in Indices : k < n}
LastN(n) == {k \in Indices : k >= Len(mask_in) - n}

----------------------------------------------------------------------------
(* Properties of RHTanglediff, checked under SpecCompare. *)

\* the shared pixel at a position is missing from one of the dictionaries
Missing(k) ==
    \/ ijpoints_polgrad_HI[k] \notin DOMAIN RHT_polgrad_dict
    \/ ijpoints_polgrad_HI[k] \notin DOMAIN RHT_HI_dict

\* C8 as stated: when some shared pixel is missing from a dictionary, the call
\* ends with KeyError at the first such pixel, the passes before it completed.
C8_Original ==
    \A k \in 1..Len(ijpoints_polgrad_HI) :
        (Missing(k) /\ (\A m \in 1..(k - 1) : ~Missing(m))
                    /\ pc \in {"raised", "cmp_done"}) =>
            (pc = "raised" /\ err = "KeyError" /\ cpos = k - 1)

----------------------------------------------------------------------------
(* Properties of repeated and of empty calls. *)

\* C11: a second call of fRHTbackprojection made with the same objects starts
\* from the arguments the first call started from (the first call changed none
\* of them), does not raise, and returns an image equal to the first one.
C11_Idempotence ==
    calls = 1 =>
        /\ Arguments = first.args
        /\ pc # "raised"
        /\ pc = "done" => backproj = first.image

\* a second call that has returned an image with a non-zero cell, from two pixels
C11_Witness ==
    /\ calls = 1
    /\ pc = "done"
    /\ Len(ijpoints) = 2
    /\ SumImage(backproj) > 0
    /\ \E n \in 1..Len(hthets) : hthets_masked(hthets[n]) # hthets[n]

\* the three input sequences are empty
EmptyInput == ipoints = <<>> /\ jpoints = <<>> /\ hthets = <<>>

\* C12: on three empty sequences the call does not raise, the store it builds
\* has no key, and the image it returns has naxis2 rows of naxis1 cells, all 0.
C12_EmptyInput ==
    EmptyInput =>
        /\ pc # "raised"
        /\ StoreBuilt => Keys = {}
        /\ pc = "done" =>
              /\ Len(backproj) = naxis2
              /\ \A r \in 1..naxis2 :
                    /\ Len(backproj[r]) = naxis1
                    /\ \A c \in 1..naxis1 : backproj[r][c] = 0

\* a returned 2-row, 1-column image of the empty input
C12_Witness ==
    /\ EmptyInput
    /\ pc = "done"
    /\ naxis1 = 1 /\ naxis2 = 2
    /\ Keys = {}

\* C17: no step of a call changes an argument array (ipoints, jpoints, hthets,
\* the two dictionaries and the two angle axes handed to RHTanglediff), and
\* once fRHTthetadict has returned the store, no pass of the backprojection loop
\* changes its keys or any entry of a stored distribution.
C17_StoreImmutable ==
    [][/\ ipoints' = ipoints
       /\ jpoints' = jpoints
       /\ hthets' = hthets
       /\ pc = "loop" => RHT_theta_dict' = RHT_theta_dict
       /\ RHT_polgrad_dict' = RHT_polgrad_dict
       /\ RHT_HI_dict' = RHT_HI_dict
       /\ angles_polgrad' = angles_polgrad
       /\ angles_HI' = angles_HI]_vars

\* a pass of the loop has masked and summed a distribution whose masked copy
\* differs from it
C17_Witness ==
    /\ pc = "loop"
    /\ pos >= 1
    /\ ijpoints[pos] \in Keys
    /\ hthets_masked(RHT_theta_dict[ijpoints[pos]]) # RHT_theta_dict[ijpoints[pos]]
    /\ writes # <<>>

RECURSIVE SumRange(_, _, _)
\* the sum of the entries of h at the 0-based indices lo .. hi
SumRange(h, lo, hi) == IF lo > hi THEN 0 ELSE h[lo + 1] + SumRange(h, lo + 1, hi)

\* C20: the value a pass of the loop writes for a pixel whose distribution has
\* length L >= 32 is the sum of its entries at the indices 16 .. L-16; the
\* entries at 0 .. 15 and L-15 .. L-1 do not enter it.
C20_ReferenceMask ==
    (pc \in {"loop", "done"} /\ pos >= 1) =>
        LET ij == ijpoints[pos]
            h == RHT_theta_dict[ij]
        IN  Len(h) >= 32 =>
               CellValue(CellOf(ij)) = SumRange(h, 16, Len(h) - 16)

\* a pass has written 17 + 18, the entries at indices 16 and 17 of the ramp of
\* length 33
C20_Witness ==
    /\ pc = "loop"
    /\ pos >= 1
    /\ RHT_theta_dict[ijpoints[pos]] = Ramp(33)
    /\ CellValue(CellOf(ijpoints[pos])) = 17 + 18

----------------------------------------------------------------------------
(* Properties of RHTanglediff's results, checked under SpecCompare. *)

\* every shared pixel is a key of both dictionaries
AllPresent == \A k \in 1..Len(ijpoints_polgrad_HI) : ~Missing(k)

\* the call has ended, by return or by exception
CmpEnded == pc \in {"raised", "cmp_done"}

\* the mean angle of a field at the k-th shared pixel, as lines 88-92 compute it
MeanAngleA(k) ==
    Mean(SelectPositive(angles_polgrad, RHT_polgrad_dict[ijpoints_polgrad_HI[k]]))
MeanAngleB(k) ==
    Mean(SelectPositive(angles_HI, RHT_HI_dict[ijpoints_polgrad_HI[k]]))

\* the negation of a difference of means
Negated(d) == IF d = nan THEN nan ELSE <<0 - d[1], d[2]>>

\* C13 as stated: for a non-empty list of shared pixels, all present in both
\* dictionaries, the call returns two sequences as long as the list, whose k-th
\* elements are the difference of mean angles and field B's intensity at the
\* k-th pixel.
C13_Original ==
    (ijpoints_polgrad_HI # <<>> /\ AllPresent /\ CmpEnded) =>
        /\ pc = "cmp_done"
        /\ Len(theta_diff_polgrad_HI) = Len(ijpoints_polgrad_HI)
        /\ Len(intensity_diff_HI) = Len(ijpoints_polgrad_HI)
        /\ \A k \in 1..Len(ijpoints_polgrad_HI) :
              /\ theta_diff_polgrad_HI[k] = MeanDiff(MeanAngleA(k), MeanAngleB(k))
              /\ intensity_diff_HI[k] =
                    SumSeq(RHT_HI_dict[ijpoints_polgrad_HI[k]])

\* C14 as stated: when every shared pixel is present in both dictionaries the
\* call raises no exception.
C14_Original == (AllPresent /\ CmpEnded) => (pc = "cmp_done" /\ err = "none")

\* C15 as stated: for shared pixels present in both dictionaries the call
\* returns a difference array that is, element by element, the negation of the
\* differences of the call with the two fields exchanged (mean of B minus mean
\* of A).
C15_Original ==
    (ijpoints_polgrad_HI # <<>> /\ AllPresent /\ CmpEnded) =>
        /\ pc = "cmp_done"
        /\ Len(theta_diff_polgrad_HI) = Len(ijpoints_polgrad_HI)
        /\ \A k \in 1..Len(ijpoints_polgrad_HI) :
              theta_diff_polgrad_HI[k] =
                  Negated(MeanDiff(MeanAngleB(k), MeanAngleA(k)))

\* the inputs of the end-to-end scenario
Scenario ==
    /\ ijpoints_polgrad_HI = <<(<<0, 0>>)>>
    /\ angles_polgrad = <<0, 45, 90, 135>>
    /\ angles_HI = <<0, 45, 90, 135>>
    /\ <<0, 0>> \in DOMAIN RHT_polgrad_dict
    /\ <<0, 0>> \in DOMAIN RHT_HI_dict
    /\ RHT_polgrad_dict[<<0, 0>>] = <<0, 3, 0, 5>>
    /\ RHT_HI_dict[<<0, 0>>] = <<2, 0, 4, 0>>

\* C16 as stated: on the scenario the call returns the difference array [45] and
\* the intensity array [6].
C16_Original ==
    (Scenario /\ CmpEnded) =>
        /\ pc = "cmp_done"
        /\ Len(theta_diff_polgrad_HI) = 1
        /\ theta_diff_polgrad_HI[1] # nan
        /\ theta_diff_polgrad_HI[1][1] = 45 * theta_diff_polgrad_HI[1][2]
        /\ intensity_diff_HI = <<6>>

----------------------------------------------------------------------------
(* Properties of faddtoRHTheader, checked under SpecHeader. *)

----------------------------------------------------------------------------
(* Properties of fmaptheta_halfpolar, checked under SpecHalfpolar. *)

\* C19: with deg true, the first call returns, for every input angle a of
\* 0 .. 360, an angle of 0 .. 179: a - 180 for a in 180 .. 359, 0 for 360, and a
\* itself for a in 0 .. 179; the second call returns the same array.
C19_Halfpolar ==
    (deg /\ hp_results # <<>>) =>
        /\ Len(hp_results[1]) = Len(angles0)
        /\ \A k \in 1..Len(angles0) :
              LET a == angles0[k]
                  r == hp_results[1][k]
              IN  /\ 0 <= r /\ r < 180
                  /\ (180 <= a /\ a < 360) => r = a - 180
                  /\ a = 360 => r = 0
                  /\ (0 <= a /\ a < 180) => r = a
        /\ Len(hp_results) = 2 => hp_results[2] = hp_results[1]

\* both calls have returned on the angles 180 and 360
C19_Witness ==
    /\ deg
    /\ Len(hp_results) = 2
    /\ angles0 = <<180, 360>>
    /\ hp_results[2] = <<0, 0>>

----------------------------------------------------------------------------
(* Properties of RHTanglediff's arithmetic, checked under SpecCompare. *)

\* the distributions of the two fields at the k-th shared pixel
DistributionA(k) == RHT_polgrad_dict[ijpoints_polgrad_HI[k]]
DistributionB(k) == RHT_HI_dict[ijpoints_polgrad_HI[k]]

\* the positions of a distribution whose intensity is strictly positive
PositivePositions(h) == {n \in 1..Len(h) : h[n] > 0}

RECURSIVE SumAt(_, _)
\* the sum of the entries of an axis at a set of positions
SumAt(axis, S) ==
    IF S = {} THEN 0
    ELSE LET n == CHOOSE m \in S : TRUE
         IN  axis[n] + SumAt(axis, S \ {n})

\* a fraction <<numerator, denominator>> has the value p / q
IsFraction(f, p, q) == f # nan /\ q # 0 /\ f[1] * q = p * f[2]

\* the call returned a difference for every shared pixel
DifferencesReturned ==
    /\ pc = "cmp_done"
    /\ Len(theta_diff_polgrad_HI) = Len(ijpoints_polgrad_HI)

\* both fields have a strictly positive intensity at the k-th shared pixel
BothPositive(k) ==
    /\ PositivePositions(DistributionA(k)) # {}
    /\ PositivePositions(DistributionB(k)) # {}

\* C21 as stated: for each shared pixel with positive intensities in both
\* fields, the difference returned is made of the unweighted arithmetic means
\* of exactly the angle-axis values at the positions of strictly positive
\* intensity: (sum of A's angles / their number) - (sum of B's / their number).
C21_Original ==
    (ijpoints_polgrad_HI # <<>> /\ AllPresent /\ CmpEnded) =>
        /\ DifferencesReturned
        /\ \A k \in 1..Len(ijpoints_polgrad_HI) :
              BothPositive(k) =>
                  LET PA == PositivePositions(DistributionA(k))
                      PB == PositivePositions(DistributionB(k))
                  IN  IsFraction(theta_diff_polgrad_HI[k],
                                 SumAt(angles_polgrad, PA) * Cardinality(PB)
                                     - SumAt(angles_HI, PB) * Cardinality(PA),
                                 Cardinality(PA) * Cardinality(PB))

\* C22 as stated: the k-th element of the intensity array returned is the sum
\* of every entry of field B's distribution at the k-th shared pixel, first to
\* last, zero and edge entries included.
C22_Original ==
    (ijpoints_polgrad_HI # <<>> /\ AllPresent /\ CmpEnded) =>
        /\ pc = "cmp_done"
        /\ Len(intensity_diff_HI) = Len(ijpoints_polgrad_HI)
        /\ \A k \in 1..Len(ijpoints_polgrad_HI) :
              intensity_diff_HI[k] =
                  SumRange(DistributionB(k), 0, Len(DistributionB(k)) - 1)

\* some shared pixel has mean angles more than 90 apart : field A positive
\* only at 135, field B positive only at 0
FarApart(k) ==
    /\ DistributionA(k) = <<0, 0, 0, 5>>
    /\ DistributionB(k) = <<2, 0, 0, 0>>
    /\ angles_polgrad = <<0, 45, 90, 135>>
    /\ angles_HI = <<0, 45, 90, 135>>

\* C23 as stated: the difference reported for a pixel is the plain subtraction
\* of the mean angles, not folded into [-90,90]: where field A's mean is 135
\* and field B's is 0 the element returned is 135.
C23_Original ==
    (AllPresent /\ CmpEnded) =>
        \A k \in 1..Len(ijpoints_polgrad_HI) :
            FarApart(k) =>
                /\ DifferencesReturned
                /\ IsFraction(theta_diff_polgrad_HI[k], 135, 1)

\* C24 as stated: when a shared pixel has no strictly positive intensity in
\* one field the call returns without raising, its difference array is as long
\* as the list of shared pixels, the elements of such pixels are not-a-number
\* and the elements of the other pixels are numbers.
C24_Original ==
    (AllPresent /\ CmpEnded
        /\ \E k \in 1..Len(ijpoints_polgrad_HI) : ~BothPositive(k)) =>
        /\ err = "none"
        /\ DifferencesReturned
        /\ \A k \in 1..Len(ijpoints_polgrad_HI) :
              (theta_diff_polgrad_HI[k] = nan) <=> ~BothPositive(k)

\* the 1-based position of the shared pixel whose pass ran last and got past
\* line 86
LastPass == IF pc = "raised" THEN cpos + 1 ELSE cpos

\* C30: called with no shared pixel, the call returns two empty sequences and
\* raises nothing, whatever the dictionaries hold (they may be empty: neither
\* is read); and whatever was passed as hthets_polgrad and hthets_HI, once a
\* pass has got past line 86 both names hold the dictionaries' entries of that
\* pass's pixel, so that no value passed for them is left for lines 88-100.
C30_EmptyShared ==
    /\ (ijpoints_polgrad_HI = <<>> /\ CmpEnded) =>
          /\ pc = "cmp_done"
          /\ err = "none"
          /\ theta_diff_polgrad_HI = <<>>
          /\ intensity_diff_HI = <<>>
    /\ (err = "NameError" \/ cpos >= 1) =>
          /\ hthets_polgrad = DistributionA(LastPass)
          /\ hthets_HI = DistributionB(LastPass)

\* a call with no shared pixel, empty dictionaries and non-empty values for
\* hthets_polgrad and hthets_HI has returned
C30_Witness ==
    /\ pc = "cmp_done"
    /\ ijpoints_polgrad_HI = <<>>
    /\ RHT_polgrad_dict = <<>>
    /\ RHT_HI_dict = <<>>
    /\ hthets_polgrad = <<7, 7, 7, 7>>
    /\ hthets_HI = <<7, 7, 7, 7>>
    /\ theta_diff_polgrad_HI = <<>>
    /\ intensity_diff_HI = <<>>

----------------------------------------------------------------------------
(* Properties of the order of the passes, checked under SpecAnyOrder. *)

\* the positions of ijpoints whose pixel addresses the cell rc
Writers(rc) == {n \in 1..Len(ijpoints) : CellOf(ijpoints[n]) = rc}

\* what the cell rc holds when the passes run in the order of ijpoints: the
\* masked sum of the last pixel listed that addresses it, 0 when none does
InOrderValue(rc) ==
    IF Writers(rc) = {} THEN 0
    ELSE LET last == CHOOSE n \in Writers(rc) : \A m \in Writers(rc) : m <= n
         IN  hthets_sum(RHT_theta_dict[ijpoints[last]])

----------------------------------------------------------------------------
(* Properties of the writes of one call, checked under SpecLengths. *)

\* C26 as stated: during one call no cell of the image is assigned twice, also
\* when the input lists a pair twice.
C26_Original ==
    \A m \in 1..Len(writes) : \A n \in 1..Len(writes) :
        m # n => writes[m] # writes[n]

\* a pixel with a negative coordinate
HasNegative(key) == key[1] < 0 \/ key[2] < 0

\* C26 amended: the loop assigns one cell per element of ijpoints, the cell its
\* pixel addresses, so a cell is assigned once for every listed pair that
\* addresses it: two passes assign the same cell only when they handle the same
\* pair listed twice, or two different pairs of which one has a negative
\* coordinate; pairs that are pairwise distinct and not negative are assigned
\* pairwise distinct cells.
C26_WritePerElement ==
    StoreBuilt =>
        /\ Len(writes) = pos
        /\ \A n \in 1..pos : writes[n] = CellOf(ijpoints[n])
        /\ \A m \in 1..pos : \A n \in 1..pos :
              (m # n /\ writes[m] = writes[n]) =>
                  \/ ijpoints[m] = ijpoints[n]
                  \/ HasNegative(ijpoints[m])
                  \/ HasNegative(ijpoints[n])

\* a call that returned after assigning the cell of a pair listed twice, twice
C26_Witness ==
    /\ pc = "done"
    /\ Len(ijpoints) = 2
    /\ ijpoints[1] = ijpoints[2]
    /\ Len(writes) = 2
    /\ writes[1] = writes[2]

----------------------------------------------------------------------------
(* Properties of the lengths held by the store, checked under SpecLengths. *)

\* C27 as stated: in every store built, all distributions have one length.
C27_Original ==
    StoreBuilt =>
        \A k1 \in Keys : \A k2 \in Keys :
            Len(RHT_theta_dict[k1]) = Len(RHT_theta_dict[k2])

\* the distributions handed in for the pixels listed have one length
UniformInput ==
    \A m \in 1..Len(ijpoints) : \A n \in 1..Len(ijpoints) :
        Len(hthets[m]) = Len(hthets[n])

\* C27 amended: the store holds under each key a distribution as long as the
\* one handed in at the last position listing that key, whatever that length
\* is; so all stored distributions have one length when the distributions
\* handed in for the pixels listed have one length, and only then is the
\* store's length uniform for certain.
C27_LengthsPreserved ==
    StoreBuilt =>
        /\ \A key \in Keys :
              Len(RHT_theta_dict[key]) = Len(hthets[LastIndexOf(key)])
        /\ UniformInput =>
              \A k1 \in Keys : \A k2 \in Keys :
                  Len(RHT_theta_dict[k1]) = Len(RHT_theta_dict[k2])

\* a store of two pixels built from two distributions of length 32
C27_Witness ==
    /\ pc = "loop"
    /\ Cardinality(Keys) = 2
    /\ UniformInput
    /\ \A key \in Keys : Len(RHT_theta_dict[key]) = 32

----------------------------------------------------------------------------
(* Properties of negative coordinates, checked under Spec. *)

\* the 0-based position that a coordinate within -n .. n-1 has on an axis of
\* length n, a negative one counted from the end
FromEnd(k, n) == IF k < 0 THEN n + k ELSE k

\* every key has its first component within -naxis1 .. naxis1-1 and its second
\* within -naxis2 .. naxis2-1
KeysWithinExtent ==
    \A key \in Keys : /\ 0 - naxis1 <= key[1] /\ key[1] < naxis1
                      /\ 0 - naxis2 <= key[2] /\ key[2] < naxis2

\* the pixels at two positions of ijpoints differ by naxis1 in the first
\* component, or by naxis2 in the second, and in nothing else
SameCellFromEnd(m, n) ==
    \/ /\ ijpoints[m][2] = ijpoints[n][2]
       /\ ijpoints[m][1] - ijpoints[n][1] \in {naxis1, 0 - naxis1}
    \/ /\ ijpoints[m][1] = ijpoints[n][1]
       /\ ijpoints[m][2] - ijpoints[n][2] \in {naxis2, 0 - naxis2}

\* C28: a call whose keys all lie within -extent .. extent-1 of their axes
\* returns, negative components included; the pass of a pixel (i,j) leaves its
\* masked sum in the cell whose row is j and whose column is i, each counted
\* from the end of its axis when negative; and of two pixels that reach one
\* cell that way, such as (i,j) and (i-naxis1,j), the one listed later leaves its
\* masked sum in the returned image when no pixel listed after it addresses that
\* cell.
C28_NegativeIndex ==
    /\ (StoreBuilt /\ pc \in {"done", "raised"} /\ KeysWithinExtent) => pc = "done"
    /\ (pc \in {"loop", "done"} /\ pos >= 1) =>
          LET ij == ijpoints[pos]
          IN  CellValue(<<FromEnd(ij[2], naxis2), FromEnd(ij[1], naxis1)>>)
                  = hthets_sum(RHT_theta_dict[ij])
    /\ pc = "done" =>
          \A m \in 1..Len(ijpoints) : \A n \in 1..Len(ijpoints) :
              (/\ m < n
               /\ SameCellFromEnd(m, n)
               /\ \A q \in (n + 1)..Len(ijpoints) :
                     CellOf(ijpoints[q]) # CellOf(ijpoints[n])) =>
                  CellValue(<<FromEnd(ijpoints[m][2], naxis2),
                              FromEnd(ijpoints[m][1], naxis1)>>)
                      = hthets_sum(RHT_theta_dict[ijpoints[n]])

\* a returned image of two columns in which the pixels (1,0) and (-1,0), listed
\* in that order with different sums, share the cell of row 0 and column 1
C28_Witness ==
    /\ pc = "done"
    /\ naxis1 = 2
    /\ ijpoints = << <<1, 0>>, <<-1, 0>> >>
    /\ hthets_sum(hthets[1]) > 0
    /\ hthets_sum(hthets[2]) > hthets_sum(hthets[1])
    /\ CellValue(<<0, 1>>) = hthets_sum(hthets[2])

----------------------------------------------------------------------------
(* Properties of short distributions, checked under SpecLengths. *)

\* every stored distribution is at most as long as the two mask slices
\* together, 16 + 15 entries
AllShort ==
    \A key \in Keys : Len(RHT_theta_dict[key]) <= 2 * EdgeExclusion + 1

\* C29: when every stored distribution has a length of at most 31, every cell
\* of the image is 0 throughout the loop and in the image returned, whatever
\* the intensities; the masking raises nothing on such lengths: the call ends
\* by returning unless a key lies outside -extent .. extent-1 of its axis, the
\* IndexError of line 156.
C29_ShortAllZero ==
    (StoreBuilt /\ AllShort) =>
        /\ \A rc \in Cells : CellValue(rc) = 0
        /\ pc = "raised" => (err = "IndexError" /\ ~KeysWithinExtent)
        /\ (pc \in {"done", "raised"} /\ KeysWithinExtent) => pc = "done"

\* a returned image of two pixels whose distributions, of lengths 3 and 31,
\* hold positive intensities
C29_Witness ==
    /\ pc = "done"
    /\ Cardinality(Keys) = 2
    /\ AllShort
    /\ \E k1 \in Keys : \E k2 \in Keys :
          /\ Len(RHT_theta_dict[k1]) = 3
          /\ Len(RHT_theta_dict[k2]) = 31
          /\ SumSeq(RHT_theta_dict[k1]) > 0
          /\ SumSeq(RHT_theta_dict[k2]) > 0
    /\ \A rc \in Cells : CellValue(rc) = 0

====
